---- MODULE Spec2Model ----
(***************************************************************************)
(* Payment-intent API of mini-stripe-rs: the create / get / confirm        *)
(* handlers of api/src/payment_intents.rs running as concurrent requests   *)
(* against one PostgreSQL database (READ COMMITTED, the default level the  *)
(* handlers run under).  Every SQL statement of a handler is one step.     *)
(***************************************************************************)
EXTENDS Integers, Sequences, FiniteSets, Bags, TLC

\* ---------------------------------------------------------------- bounds
NProcs == 2          \* requests in flight at the same time
MaxRequests == 2     \* requests started in one behaviour
MaxFailures == 1     \* storage failures / crashes injected in one behaviour

Procs == 1 .. NProcs

\* ------------------------------------------------------------- constants
IDEMPOTENCY_ENDPOINT == "POST /v1/payment_intents"

NoHeader == "<absent>"            \* request without an Idempotency-Key header
OpaqueHeader == "<non-ascii>"     \* a header value HeaderValue::to_str rejects
NoKey == "<none>"                 \* idempotency_key = None
Keys == {"abc123", "crash-window-key"}
Headers == Keys \cup {NoHeader, OpaqueHeader}
\* the create requests issued, <<header, <<amount, currency>>>>; a currency is
\* a sequence of characters
CreateInputs ==
    {<<"abc123", <<2500, <<"g">>>>>>,            \* the test's request
     <<"abc123", <<2500, <<"G", " ">>>>>>,       \* same fingerprint, other spelling
     <<"abc123", <<2500, <<"G">>>>>>,            \* differs in letter case only
     <<"abc123", <<9999, <<"g">>>>>>,            \* same key, other amount
     <<"crash-window-key", <<2500, <<"g">>>>>>,
     <<"crash-window-key", <<9999, <<"g">>>>>>,
     <<NoHeader, <<2500, <<"g">>>>>>,
     <<OpaqueHeader, <<2500, <<"g">>>>>>,
     <<"abc123", <<0, <<"g">>>>>>,               \* amount must be > 0
     <<NoHeader, <<2500, <<" ">>>>>>}            \* currency is required
NullId == 0                        \* SQL NULL in payment_intent_id / no id
UnknownId == -1                    \* a Uuid no row was ever given
NoCurrency == <<>>

REQUIRES_CONFIRMATION == "requires_confirmation"
SUCCEEDED == "succeeded"
CREATED_EVENT == "payment_intent.created"
SUCCEEDED_EVENT == "payment_intent.succeeded"

\* ------------------------------------------------------- string helpers
\* char::to_lowercase over the alphabet of Currencies
LowerChar(c) == IF c = "G" THEN "g" ELSE c

RECURSIVE TrimStart(_)
TrimStart(s) == IF s # <<>> /\ Head(s) = " " THEN TrimStart(Tail(s)) ELSE s

RECURSIVE TrimEnd(_)
TrimEnd(s) ==
    IF s # <<>> /\ s[Len(s)] = " " THEN TrimEnd(SubSeq(s, 1, Len(s) - 1)) ELSE s

\* str::trim
Trim(s) == TrimEnd(TrimStart(s))

\* str::to_lowercase
ToLowercase(s) == [i \in 1 .. Len(s) |-> LowerChar(s[i])]

\* a fingerprint of the currency as sent, without to_lowercase
request_fingerprint_case_sensitive(req) ==
    <<"amount=", req.amount, "&currency=">> \o Trim(req.currency)

\* format!("amount={}&currency={}", req.amount, req.currency.trim().to_lowercase())
request_fingerprint(req) ==
    <<"amount=", req.amount, "&currency=">> \o ToLowercase(Trim(req.currency))

\* a validation that forgets the amount
validate_currency_only(req) ==
    IF Trim(req.currency) = <<>> THEN "currency is required" ELSE ""

\* Ok(()) is "", an Err is its message
validate_create_payment_intent(req) ==
    IF req.amount <= 0 THEN "amount must be > 0"
    ELSE IF Trim(req.currency) = <<>> THEN "currency is required"
    ELSE ""

\* ------------------------------------------------------------ JSON values
EmptyJson == [f \in {} |-> 0]      \* '{}'::jsonb

\* PaymentIntentResponse, and serde_json::to_value of it
PaymentIntentResponse(id, amount, currency, status) ==
    [id |-> id, amount |-> amount, currency |-> currency, status |-> status]

NoBody == PaymentIntentResponse(NullId, 0, NoCurrency, "")

\* row.response_body.get("id").and_then(|v| v.as_str()).is_some()
looks_complete(body) == "id" \in DOMAIN body

\* serde_json::from_value::<PaymentIntentResponse> succeeds
from_value_ok(body) == {"id", "amount", "currency", "status"} \subseteq DOMAIN body

\* serde_json::json!({"payment_intent": {...}})
EventPayload(response) ==
    [payment_intent |-> PaymentIntentResponse(response.id, response.amount,
                                              response.currency, response.status)]

OutboxEvent(event_type, payload) == [event_type |-> event_type, payload |-> payload]

\* ------------------------------------------------------------------ state
VARIABLES
    payment_intents,    \* committed rows of payment_intents: id -> row
    idempotency_keys,   \* committed rows of idempotency_keys: <<key, endpoint>> -> row
    events_outbox,      \* committed rows of events_outbox, in insertion order
    tx,                 \* per request: its open transaction's uncommitted writes
    pc,                 \* per request: the statement the handler executes next
    req,                \* per request: handler, header and body / path
    loc,                \* per request: the handler's local variables
    responses,          \* the bag of responses the handlers have returned so far
    nextId,             \* source of Uuid::new_v4 values
    requestsLeft,       \* requests still to be started
    nFailures,          \* storage failures and crashes injected
    seed                \* the rows the database held before the first request

vars == <<payment_intents, idempotency_keys, events_outbox, tx, pc, req, loc,
          responses, nextId, requestsLeft, nFailures, seed>>

\* primary key of idempotency_keys
IkPk(key) == <<key, IDEMPOTENCY_ENDPOINT>>

\* an INSERT that stores every intent as already succeeded
PaymentIntentRowSucceeded(amount, currency, status) ==
    [amount |-> amount, currency |-> currency, status |-> SUCCEEDED]

PaymentIntentRow(amount, currency, status) ==
    [amount |-> amount, currency |-> currency, status |-> status]

IdempotencyRow(request_hash, response_body, payment_intent_id) ==
    [request_hash |-> request_hash, response_body |-> response_body,
     payment_intent_id |-> payment_intent_id]

EmptyFcn == [f \in {} |-> 0]

NoRow == IdempotencyRow(<<>>, EmptyJson, NullId)

\* a transaction that is not open, or has written nothing yet
NoTx == [open |-> FALSE,
         pi |-> EmptyFcn,      \* payment_intents rows inserted
         upd |-> {},           \* payment_intents ids set to 'succeeded' (row locked)
         ik |-> EmptyFcn,      \* idempotency_keys rows inserted or updated
         ikNew |-> {},         \* the primary keys among ik that are inserts
         ev |-> <<>>]          \* events_outbox rows inserted

OpenTx == [NoTx EXCEPT !.open = TRUE]

NoReq == [op |-> "none", header |-> NoHeader, amount |-> 0, currency |-> NoCurrency,
          id |-> NullId]

NoLoc == [req_hash |-> <<>>, id |-> NullId, row |-> NoRow, response |-> NoBody]

\* f with g's rows added or replaced
Overlay(g, f) == [x \in DOMAIN g \cup DOMAIN f |-> IF x \in DOMAIN g THEN g[x] ELSE f[x]]

\* the database before the first request: empty, the rows the test
\* idempotency_reconstructs_response_if_response_body_missing inserts, or a
\* record without response and payment_intent_id
EmptyDb == [name |-> "empty", pi |-> EmptyFcn, ik |-> EmptyFcn]

CrashWindowDb ==
    [name |-> "crash-window",
     pi |-> (1 :> PaymentIntentRow(2500, <<"g">>, REQUIRES_CONFIRMATION)),
     ik |-> (IkPk("crash-window-key") :>
               IdempotencyRow(request_fingerprint([amount |-> 2500, currency |-> <<"g">>]),
                              EmptyJson, 1))]

\* the record the last branch of create_payment_intent handles: neither a
\* stored response nor a payment_intent_id
OrphanRecordDb ==
    [name |-> "orphan-record",
     pi |-> EmptyFcn,
     ik |-> (IkPk("crash-window-key") :>
               IdempotencyRow(request_fingerprint([amount |-> 2500, currency |-> <<"g">>]),
                              EmptyJson, NullId))]

Seeds == {EmptyDb, CrashWindowDb, OrphanRecordDb}

\* the state before the first of n requests, on database db
InitWith(db, n) ==
    /\ seed = db
    /\ payment_intents = seed.pi
    /\ idempotency_keys = seed.ik
    /\ events_outbox = <<>>
    /\ tx = [p \in Procs |-> NoTx]
    /\ pc = [p \in Procs |-> "idle"]
    /\ req = [p \in Procs |-> NoReq]
    /\ loc = [p \in Procs |-> NoLoc]
    /\ responses = EmptyBag
    /\ nextId = Cardinality(DOMAIN seed.pi) + 1
    /\ requestsLeft = n
    /\ nFailures = 0

Init == \E db \in Seeds : InitWith(db, MaxRequests)

\* the crash-window database and a retry more
InitCrashWindow == InitWith(CrashWindowDb, MaxRequests + 1)

\* ------------------------------------------------- transactions and rows
\* a commit that loses the status updates
CommitPaymentIntentsInsertsOnly(t) == Overlay(t.pi, payment_intents)

\* the tables after transaction t commits
CommitPaymentIntents(t) ==
    Overlay(t.pi, [i \in DOMAIN payment_intents |->
                      IF i \in t.upd
                      THEN [payment_intents[i] EXCEPT !.status = SUCCEEDED]
                      ELSE payment_intents[i]])

\* a commit that replaces the table by the rows the transaction wrote
CommitIdempotencyKeysOnlyOwn(t) == IF DOMAIN t.ik = {} THEN idempotency_keys ELSE t.ik

CommitIdempotencyKeys(t) == Overlay(t.ik, idempotency_keys)

\* events written outside the committing transaction
CommitEventsOutboxLost(t) == events_outbox

CommitEventsOutbox(t) == events_outbox \o t.ev

\* what a statement of request p sees: committed rows and p's own writes
VisibleIdempotencyKeys(p) == Overlay(tx[p].ik, idempotency_keys)

VisiblePaymentIntents(p) == CommitPaymentIntents(tx[p])

\* the reservation as a plain insert that never waits for a pending one
InsertPendingIgnored(p, k) == FALSE

\* another open transaction holds an uncommitted insert of this primary key
InsertPending(p, k) == \E q \in Procs \ {p} : k \in tx[q].ikNew

\* a row lock that also blocks the transaction that holds it
IkRowLockedEvenByOwner(p, k) == \E q \in Procs : k \in DOMAIN tx[q].ik

\* another open transaction holds the row lock of this idempotency_keys row
IkRowLocked(p, k) == \E q \in Procs \ {p} : k \in DOMAIN tx[q].ik

\* an UPDATE that never waits for the row lock
PiRowLockIgnored(p, i) == FALSE

\* another open transaction holds the row lock of this payment_intents row
PiRowLocked(p, i) == \E q \in Procs \ {p} : i \in tx[q].upd

\* headers.get("Idempotency-Key").and_then(|v| v.to_str().ok())
idempotency_key(header) == IF header \in Keys THEN header ELSE NoKey

\* the handler of request p returns (its transaction, if any, is gone)
Return(p, code, body, msg) ==
    /\ responses' = responses (+) SetToBag(
         {[op |-> req[p].op, header |-> req[p].header, amount |-> req[p].amount,
           currency |-> req[p].currency, id |-> req[p].id,
           code |-> code, body |-> body, msg |-> msg]})
    /\ pc' = [pc EXCEPT ![p] = "idle"]
    /\ req' = [req EXCEPT ![p] = NoReq]
    /\ loc' = [loc EXCEPT ![p] = NoLoc]

Goto(p, label) == pc' = [pc EXCEPT ![p] = label]

DbUnchanged == UNCHANGED <<payment_intents, idempotency_keys, events_outbox>>

\* ------------------------------------------------------------------ create
\* a handler that reserves the key before it validates the body: the record of
\* a refused request stays behind
CreateRequestReservesFirst(p) ==
    /\ pc[p] = "idle"
    /\ requestsLeft > 0
    /\ \E input \in CreateInputs :
         LET header == input[1]
             amount == input[2][1]
             currency == input[2][2]
             r == [op |-> "create", header |-> header, amount |-> amount,
                   currency |-> currency, id |-> NullId]
             msg == validate_create_payment_intent(r)
             k == IkPk(idempotency_key(header))
         IN  /\ requestsLeft' = requestsLeft - 1
             /\ IF msg # ""
                THEN /\ responses' = responses (+) SetToBag(
                          {[op |-> "create", header |-> header, amount |-> amount,
                            currency |-> currency, id |-> NullId,
                            code |-> 400, body |-> NoBody, msg |-> msg]})
                     /\ idempotency_keys' =
                          IF idempotency_key(header) = NoKey \/ k \in DOMAIN idempotency_keys
                          THEN idempotency_keys
                          ELSE Overlay(k :> IdempotencyRow(request_fingerprint(r),
                                                           EmptyJson, NullId),
                                       idempotency_keys)
                     /\ UNCHANGED <<pc, req, loc, tx>>
                ELSE /\ req' = [req EXCEPT ![p] = r]
                     /\ loc' = [loc EXCEPT ![p].req_hash = request_fingerprint(r)]
                     /\ IF idempotency_key(header) = NoKey
                        THEN Goto(p, "insert_nokey") /\ UNCHANGED tx
                        ELSE Goto(p, "reserve") /\ tx' = [tx EXCEPT ![p] = OpenTx]
                     /\ UNCHANGED <<responses, idempotency_keys>>
    /\ UNCHANGED <<payment_intents, events_outbox, nextId, nFailures, seed>>

\* lines 48-64 and 93-101: validation, header, fingerprint, state.db.begin()
\* (begin touches no row: it is one step with the statements before it)
CreateRequest(p) ==
    /\ pc[p] = "idle"
    /\ requestsLeft > 0
    /\ \E input \in CreateInputs :
         LET header == input[1]
             amount == input[2][1]
             currency == input[2][2]
             r == [op |-> "create", header |-> header, amount |-> amount,
                   currency |-> currency, id |-> NullId]
             msg == validate_create_payment_intent(r)
         IN  /\ requestsLeft' = requestsLeft - 1
             /\ IF msg # ""
                THEN /\ responses' = responses (+) SetToBag(
                          {[op |-> "create", header |-> header, amount |-> amount,
                            currency |-> currency, id |-> NullId,
                            code |-> 400, body |-> NoBody, msg |-> msg]})
                     /\ UNCHANGED <<pc, req, loc, tx>>
                ELSE /\ req' = [req EXCEPT ![p] = r]
                     /\ loc' = [loc EXCEPT ![p].req_hash = request_fingerprint(r)]
                     /\ IF idempotency_key(header) = NoKey
                        THEN Goto(p, "insert_nokey") /\ UNCHANGED tx
                        ELSE Goto(p, "reserve") /\ tx' = [tx EXCEPT ![p] = OpenTx]
                     /\ UNCHANGED responses
    /\ DbUnchanged
    /\ UNCHANGED <<nextId, nFailures, seed>>

\* the INSERT built but never executed: 201 for a row that was not written
CreateWithoutKeyNotExecuted(p) ==
    /\ pc[p] = "insert_nokey"
    /\ nextId' = nextId + 1
    /\ Return(p, 201, PaymentIntentResponse(nextId, req[p].amount, req[p].currency,
                                            REQUIRES_CONFIRMATION), "")
    /\ UNCHANGED <<payment_intents, idempotency_keys, events_outbox, tx, requestsLeft,
                   nFailures, seed>>

\* lines 65-90: no key, one autocommitted INSERT on the pool
CreateWithoutKey(p) ==
    /\ pc[p] = "insert_nokey"
    /\ LET id == nextId
           response == PaymentIntentResponse(id, req[p].amount, req[p].currency,
                                             REQUIRES_CONFIRMATION)
       IN  /\ nextId' = nextId + 1
           /\ payment_intents' =
                Overlay(id :> PaymentIntentRow(req[p].amount, req[p].currency,
                                               REQUIRES_CONFIRMATION),
                        payment_intents)
           /\ Return(p, 201, response, "")
    /\ UNCHANGED <<idempotency_keys, events_outbox, tx, requestsLeft, nFailures, seed>>

\* a reservation executed on the pool: the placeholder row is committed at once
ReserveOnPool(p) ==
    /\ pc[p] = "reserve"
    /\ LET k == IkPk(idempotency_key(req[p].header))
       IN  IF k \in DOMAIN idempotency_keys
           THEN /\ Goto(p, "fetch_row")
                /\ UNCHANGED idempotency_keys
           ELSE /\ idempotency_keys' =
                     Overlay(k :> IdempotencyRow(loc[p].req_hash, EmptyJson, NullId),
                             idempotency_keys)
                /\ Goto(p, "insert_pi")
    /\ UNCHANGED <<payment_intents, events_outbox, tx, req, loc, responses, nextId,
                   requestsLeft, nFailures, seed>>

\* lines 105-120: INSERT ... ON CONFLICT (key, endpoint) DO NOTHING RETURNING key.
\* The statement waits while another transaction's insert of the key is pending.
Reserve(p) ==
    /\ pc[p] = "reserve"
    /\ LET k == IkPk(idempotency_key(req[p].header))
       IN  /\ ~InsertPending(p, k)
           /\ IF k \in DOMAIN idempotency_keys
              THEN /\ Goto(p, "fetch_row")
                   /\ UNCHANGED tx
              ELSE /\ tx' = [tx EXCEPT
                               ![p].ik = Overlay(k :> IdempotencyRow(loc[p].req_hash,
                                                                     EmptyJson, NullId), @),
                               ![p].ikNew = @ \cup {k}]
                   /\ Goto(p, "insert_pi")
    /\ DbUnchanged
    /\ UNCHANGED <<req, loc, responses, nextId, requestsLeft, nFailures, seed>>

\* an insert that uses one fixed id instead of Uuid::new_v4
InsertPaymentIntentWithFixedId(p) ==
    /\ pc[p] = "insert_pi"
    /\ LET id == 1
       IN  /\ nextId' = nextId + 1
           /\ tx' = [tx EXCEPT ![p].pi =
                       Overlay(id :> PaymentIntentRow(req[p].amount, req[p].currency,
                                                      REQUIRES_CONFIRMATION), @)]
           /\ loc' = [loc EXCEPT ![p].id = id,
                                 ![p].response =
                                    PaymentIntentResponse(id, req[p].amount,
                                        req[p].currency, REQUIRES_CONFIRMATION)]
    /\ Goto(p, "update_key")
    /\ DbUnchanged
    /\ UNCHANGED <<req, responses, requestsLeft, nFailures, seed>>

\* lines 122-144: Uuid::new_v4, INSERT INTO payment_intents inside the transaction
InsertPaymentIntent(p) ==
    /\ pc[p] = "insert_pi"
    /\ LET id == nextId
       IN  /\ nextId' = nextId + 1
           /\ tx' = [tx EXCEPT ![p].pi =
                       Overlay(id :> PaymentIntentRow(req[p].amount, req[p].currency,
                                                      REQUIRES_CONFIRMATION), @)]
           /\ loc' = [loc EXCEPT ![p].id = id,
                                 ![p].response =
                                    PaymentIntentResponse(id, req[p].amount,
                                        req[p].currency, REQUIRES_CONFIRMATION)]
    /\ Goto(p, "update_key")
    /\ DbUnchanged
    /\ UNCHANGED <<req, responses, requestsLeft, nFailures, seed>>

\* lines 147-170: UPDATE idempotency_keys SET response_body, payment_intent_id
StoreResponse(p) ==
    /\ pc[p] = "update_key"
    /\ LET k == IkPk(idempotency_key(req[p].header))
           visible == VisibleIdempotencyKeys(p)
       IN  /\ ~IkRowLocked(p, k)
           /\ tx' = IF k \in DOMAIN visible
                    THEN [tx EXCEPT ![p].ik =
                            Overlay(k :> [visible[k] EXCEPT
                                            !.response_body = loc[p].response,
                                            !.payment_intent_id = loc[p].id], @)]
                    ELSE tx
    /\ Goto(p, "insert_event")
    /\ DbUnchanged
    /\ UNCHANGED <<req, loc, responses, nextId, requestsLeft, nFailures, seed>>

\* an insert_event that writes the row twice
insert_event_twice(t, event_type, payload) ==
    [t EXCEPT !.ev = Append(Append(@, OutboxEvent(event_type, payload)),
                            OutboxEvent(event_type, payload))]

\* lines 172-184 and 353-365: insert_event(&mut *tx, event_type, payload)
insert_event(t, event_type, payload) ==
    [t EXCEPT !.ev = Append(@, OutboxEvent(event_type, payload))]

InsertEvent(p) ==
    /\ pc[p] = "insert_event"
    /\ tx' = [tx EXCEPT ![p] =
                insert_event(@, IF req[p].op = "create" THEN CREATED_EVENT
                                                         ELSE SUCCEEDED_EVENT,
                             EventPayload(loc[p].response))]
    /\ Goto(p, "commit")
    /\ DbUnchanged
    /\ UNCHANGED <<req, loc, responses, nextId, requestsLeft, nFailures, seed>>

\* lines 186-190 and 367-371: tx.commit(), then the success response
Commit(p) ==
    /\ pc[p] = "commit"
    /\ payment_intents' = CommitPaymentIntents(tx[p])
    /\ idempotency_keys' = CommitIdempotencyKeys(tx[p])
    /\ events_outbox' = CommitEventsOutbox(tx[p])
    /\ tx' = [tx EXCEPT ![p] = NoTx]
    /\ Return(p, IF req[p].op = "create" THEN 201 ELSE 200, loc[p].response, "")
    /\ UNCHANGED <<nextId, requestsLeft, nFailures, seed>>

\* a comparison that accepts every stored fingerprint
request_never_differs(row, req_hash) == FALSE

\* line 208: row.request_hash != req_hash
request_differs(row, req_hash) == row.request_hash # req_hash

\* a lost reservation that goes on as if it had been won
FetchRowThenCreate(p) ==
    /\ pc[p] = "fetch_row"
    /\ Goto(p, "insert_pi")
    /\ DbUnchanged
    /\ UNCHANGED <<tx, req, loc, responses, nextId, requestsLeft, nFailures, seed>>

\* lines 193-234 and 283-288: SELECT the stored record, then the branches that
\* end the request; the transaction has written nothing, so its rollback or
\* commit changes no table
FetchRow(p) ==
    /\ pc[p] = "fetch_row"
    /\ LET k == IkPk(idempotency_key(req[p].header))
           visible == VisibleIdempotencyKeys(p)
       IN  IF k \notin DOMAIN visible
           THEN /\ tx' = [tx EXCEPT ![p] = NoTx]
                /\ Return(p, 500, NoBody, "db error")
           ELSE LET row == visible[k]
                IN  IF request_differs(row, loc[p].req_hash)
                    THEN /\ tx' = [tx EXCEPT ![p] = NoTx]
                         /\ Return(p, 409, NoBody,
                                   "idempotency key reused with different request")
                    ELSE IF looks_complete(row.response_body)
                    THEN /\ tx' = [tx EXCEPT ![p] = NoTx]
                         /\ IF from_value_ok(row.response_body)
                            THEN Return(p, 201,
                                        PaymentIntentResponse(row.response_body.id,
                                            row.response_body.amount,
                                            row.response_body.currency,
                                            row.response_body.status), "")
                            ELSE Return(p, 500, NoBody, "json error")
                    ELSE IF row.payment_intent_id # NullId
                    THEN /\ loc' = [loc EXCEPT ![p].row = row]
                         /\ Goto(p, "fetch_pi")
                         /\ UNCHANGED <<tx, req, responses>>
                    ELSE /\ tx' = [tx EXCEPT ![p] = NoTx]
                         /\ Return(p, 500, NoBody,
                                   "idempotency record exists but has no stored response or payment_intent_id")
    /\ DbUnchanged
    /\ UNCHANGED <<nextId, requestsLeft, nFailures, seed>>

\* lines 236-255: SELECT the referenced payment intent (fetch_one)
FetchPaymentIntent(p) ==
    /\ pc[p] = "fetch_pi"
    /\ LET pi_id == loc[p].row.payment_intent_id
           visible == VisiblePaymentIntents(p)
       IN  IF pi_id \notin DOMAIN visible
           THEN /\ tx' = [tx EXCEPT ![p] = NoTx]
                /\ Return(p, 500, NoBody, "db error")
           ELSE /\ loc' = [loc EXCEPT ![p].response =
                              PaymentIntentResponse(pi_id, visible[pi_id].amount,
                                  visible[pi_id].currency, visible[pi_id].status)]
                /\ Goto(p, "backfill")
                /\ UNCHANGED <<tx, req, responses>>
    /\ DbUnchanged
    /\ UNCHANGED <<nextId, requestsLeft, nFailures, seed>>

\* a recovery that returns the response without storing it
BackfillSkipped(p) ==
    /\ pc[p] = "backfill"
    /\ Goto(p, "commit_backfill")
    /\ DbUnchanged
    /\ UNCHANGED <<tx, req, loc, responses, nextId, requestsLeft, nFailures, seed>>

\* lines 257-277: UPDATE idempotency_keys SET response_body; waits for the row lock
Backfill(p) ==
    /\ pc[p] = "backfill"
    /\ LET k == IkPk(idempotency_key(req[p].header))
           visible == VisibleIdempotencyKeys(p)
       IN  /\ ~IkRowLocked(p, k)
           /\ tx' = IF k \in DOMAIN visible
                    THEN [tx EXCEPT ![p].ik =
                            Overlay(k :> [visible[k] EXCEPT
                                            !.response_body = loc[p].response], @)]
                    ELSE tx
    /\ Goto(p, "commit_backfill")
    /\ DbUnchanged
    /\ UNCHANGED <<req, loc, responses, nextId, requestsLeft, nFailures, seed>>

\* lines 279-280: tx.commit().await.ok(), then 201
CommitBackfill(p) ==
    /\ pc[p] = "commit_backfill"
    /\ payment_intents' = CommitPaymentIntents(tx[p])
    /\ idempotency_keys' = CommitIdempotencyKeys(tx[p])
    /\ events_outbox' = CommitEventsOutbox(tx[p])
    /\ tx' = [tx EXCEPT ![p] = NoTx]
    /\ Return(p, 201, loc[p].response, "")
    /\ UNCHANGED <<nextId, requestsLeft, nFailures, seed>>

\* line 279: the commit fails; .ok() discards the error and 201 is returned
CommitBackfillFails(p) ==
    /\ pc[p] = "commit_backfill"
    /\ nFailures < MaxFailures
    /\ nFailures' = nFailures + 1
    /\ tx' = [tx EXCEPT ![p] = NoTx]
    /\ Return(p, 201, loc[p].response, "")
    /\ DbUnchanged
    /\ UNCHANGED <<nextId, requestsLeft, seed>>

\* ----------------------------------------------------------- confirm, get
\* the identifiers a request path can carry: any row's id, or an unused one
PathIds ==
    DOMAIN payment_intents \cup UNION {DOMAIN tx[q].pi : q \in Procs} \cup {UnknownId}

\* lines 321-329: the request and state.db.begin()
ConfirmRequest(p) ==
    /\ pc[p] = "idle"
    /\ requestsLeft > 0
    /\ requestsLeft' = requestsLeft - 1
    /\ \E id \in PathIds :
         req' = [req EXCEPT ![p] = [NoReq EXCEPT !.op = "confirm", !.id = id]]
    /\ tx' = [tx EXCEPT ![p] = OpenTx]
    /\ Goto(p, "cas_update")
    /\ DbUnchanged
    /\ UNCHANGED <<loc, responses, nextId, nFailures, seed>>

\* lines 331-351: UPDATE payment_intents SET status = 'succeeded'
\* WHERE id = $1 AND status = 'requires_confirmation' RETURNING ...;
\* the statement waits for the row lock and then re-checks the committed row
ConditionalUpdate(p) ==
    /\ pc[p] = "cas_update"
    /\ LET id == req[p].id
       IN  IF /\ id \in DOMAIN payment_intents
              /\ payment_intents[id].status = REQUIRES_CONFIRMATION
           THEN /\ ~PiRowLocked(p, id)
                /\ tx' = [tx EXCEPT ![p].upd = @ \cup {id}]
                /\ loc' = [loc EXCEPT ![p].response =
                              PaymentIntentResponse(id, payment_intents[id].amount,
                                  payment_intents[id].currency, SUCCEEDED)]
                /\ Goto(p, "insert_event")
           ELSE /\ Goto(p, "diag_select")
                /\ UNCHANGED <<tx, loc>>
    /\ DbUnchanged
    /\ UNCHANGED <<req, responses, nextId, requestsLeft, nFailures, seed>>

ConfirmConflictMessage(status) ==
    IF status = SUCCEEDED
    THEN "cannot confirm payment_intent in status 'succeeded'"
    ELSE "cannot confirm payment_intent in status 'requires_confirmation'"

\* a diagnostic read that takes a missing row for a conflict
DiagnosticSelectWithoutNotFound(p) ==
    /\ pc[p] = "diag_select"
    /\ Return(p, 409, NoBody, ConfirmConflictMessage(SUCCEEDED))
    /\ tx' = [tx EXCEPT ![p] = NoTx]
    /\ DbUnchanged
    /\ UNCHANGED <<nextId, requestsLeft, nFailures, seed>>

\* lines 374-399: SELECT status, rollback, 404 or 409
DiagnosticSelect(p) ==
    /\ pc[p] = "diag_select"
    /\ LET id == req[p].id
           visible == VisiblePaymentIntents(p)
       IN  IF id \notin DOMAIN visible
           THEN Return(p, 404, NoBody, "payment_intent not found")
           ELSE Return(p, 409, [NoBody EXCEPT !.status = visible[id].status],
                       ConfirmConflictMessage(visible[id].status))
    /\ tx' = [tx EXCEPT ![p] = NoTx]
    /\ DbUnchanged
    /\ UNCHANGED <<nextId, requestsLeft, nFailures, seed>>

\* a read that reports the status the intent was created with
get_payment_intent_initial_status(p) ==
    /\ pc[p] = "idle"
    /\ requestsLeft > 0
    /\ requestsLeft' = requestsLeft - 1
    /\ \E id \in PathIds :
         LET r == [op |-> "get", header |-> NoHeader, amount |-> 0,
                   currency |-> NoCurrency, id |-> id]
         IN  responses' = responses (+) SetToBag(
               {IF id \in DOMAIN payment_intents
                THEN r @@ [code |-> 200,
                           body |-> PaymentIntentResponse(id, payment_intents[id].amount,
                                        payment_intents[id].currency,
                                        REQUIRES_CONFIRMATION),
                           msg |-> ""]
                ELSE r @@ [code |-> 404, body |-> NoBody,
                           msg |-> "payment_intent not found"]})
    /\ DbUnchanged
    /\ UNCHANGED <<tx, pc, req, loc, nextId, nFailures, seed>>

\* lines 291-318: one SELECT on the pool, answered in the same step
get_payment_intent(p) ==
    /\ pc[p] = "idle"
    /\ requestsLeft > 0
    /\ requestsLeft' = requestsLeft - 1
    /\ \E id \in PathIds :
         LET r == [op |-> "get", header |-> NoHeader, amount |-> 0,
                   currency |-> NoCurrency, id |-> id]
         IN  responses' = responses (+) SetToBag(
               {IF id \in DOMAIN payment_intents
                THEN r @@ [code |-> 200,
                           body |-> PaymentIntentResponse(id, payment_intents[id].amount,
                                        payment_intents[id].currency,
                                        payment_intents[id].status),
                           msg |-> ""]
                ELSE r @@ [code |-> 404, body |-> NoBody,
                           msg |-> "payment_intent not found"]})
    /\ DbUnchanged
    /\ UNCHANGED <<tx, pc, req, loc, nextId, nFailures, seed>>

\* ---------------------------------------------------------------- failures
\* the statements whose sqlx error is mapped to 500 with `?`
FallibleSteps ==
    {"insert_nokey", "reserve", "insert_pi", "update_key", "insert_event",
     "commit", "fetch_row", "fetch_pi", "backfill", "cas_update", "diag_select"}

\* an error path that commits what the transaction wrote so far
DbErrorCommitsPartialWork(p) ==
    /\ pc[p] \in FallibleSteps
    /\ nFailures < MaxFailures
    /\ nFailures' = nFailures + 1
    /\ payment_intents' = CommitPaymentIntents(tx[p])
    /\ idempotency_keys' = CommitIdempotencyKeys(tx[p])
    /\ events_outbox' = CommitEventsOutbox(tx[p])
    /\ tx' = [tx EXCEPT ![p] = NoTx]
    /\ Return(p, 500, NoBody, "db error")
    /\ UNCHANGED <<nextId, requestsLeft, seed>>

\* .map_err(|e| (INTERNAL_SERVER_ERROR, ...))?  The dropped transaction rolls back.
DbError(p) ==
    /\ pc[p] \in FallibleSteps
    /\ nFailures < MaxFailures
    /\ nFailures' = nFailures + 1
    /\ tx' = [tx EXCEPT ![p] = NoTx]
    /\ Return(p, 500, NoBody, "db error")
    /\ DbUnchanged
    /\ UNCHANGED <<nextId, requestsLeft, seed>>

\* the process dies inside a handler: no response, the open transaction is
\* rolled back by the database
Crash(p) ==
    /\ pc[p] # "idle"
    /\ nFailures < MaxFailures
    /\ nFailures' = nFailures + 1
    /\ tx' = [tx EXCEPT ![p] = NoTx]
    /\ pc' = [pc EXCEPT ![p] = "idle"]
    /\ req' = [req EXCEPT ![p] = NoReq]
    /\ loc' = [loc EXCEPT ![p] = NoLoc]
    /\ DbUnchanged
    /\ UNCHANGED <<responses, nextId, requestsLeft, seed>>

\* ----------------------------------------------------------- specification
Next ==
    \E p \in Procs :
        \/ CreateRequest(p)
        \/ CreateWithoutKey(p)
        \/ Reserve(p)
        \/ InsertPaymentIntent(p)
        \/ StoreResponse(p)
        \/ InsertEvent(p)
        \/ Commit(p)
        \/ FetchRow(p)
        \/ FetchPaymentIntent(p)
        \/ Backfill(p)
        \/ CommitBackfill(p)
        \/ CommitBackfillFails(p)
        \/ ConfirmRequest(p)
        \/ ConditionalUpdate(p)
        \/ DiagnosticSelect(p)
        \/ get_payment_intent(p)
        \/ DbError(p)
        \/ Crash(p)

Spec == Init /\ [][Next]_vars

SpecCrashWindow == InitCrashWindow /\ [][Next]_vars

\* the next statement of the handler of request p (no new request, no
\* injected failure)
HandlerStep(p) ==
    \/ CreateWithoutKey(p)
    \/ Reserve(p)
    \/ InsertPaymentIntent(p)
    \/ StoreResponse(p)
    \/ InsertEvent(p)
    \/ Commit(p)
    \/ FetchRow(p)
    \/ FetchPaymentIntent(p)
    \/ Backfill(p)
    \/ CommitBackfill(p)
    \/ ConditionalUpdate(p)
    \/ DiagnosticSelect(p)

\* the runtime polls every handler whose statement can proceed, and the
\* database wakes a statement when the lock it waits for is released
SpecFair ==
    InitWith(CrashWindowDb, MaxRequests) /\ [][Next]_vars
        /\ \A p \in Procs : WF_vars(HandlerStep(p))

\* ------------------------------------------------------------- properties
Returned == BagToSet(responses)

Tables == <<payment_intents, idempotency_keys, events_outbox>>

\* the 201 responses to creates that carried header h
Created201(h) == {r \in Returned : r.op = "create" /\ r.header = h /\ r.code = 201}

\* the rows of events_outbox of one type about one payment intent
EventsOf(event_type, id) ==
    {n \in 1 .. Len(events_outbox) :
        /\ events_outbox[n].event_type = event_type
        /\ events_outbox[n].payload.payment_intent.id = id}

\* the ids of the intents inserted by requests without a usable key
UnkeyedIds ==
    {r.body.id : r \in {x \in Returned : /\ x.op = "create" /\ x.code = 201
                                         /\ idempotency_key(x.header) = NoKey}}

\* C1: creates that share an Idempotency-Key insert at most one payment intent
\* for the key, and every 201 among them carries the id of that intent: each
\* 201 names the intent the key's record references, and every intent the
\* handlers inserted is either an unkeyed create's or the one referenced by
\* some key's record.
C1_OneIntentPerKey ==
    /\ \A k \in Keys : \A r \in Created201(k) :
         /\ IkPk(k) \in DOMAIN idempotency_keys
         /\ r.body.id = idempotency_keys[IkPk(k)].payment_intent_id
         /\ r.body.id \in DOMAIN payment_intents
    /\ \A i \in DOMAIN payment_intents \ (DOMAIN seed.pi \cup UnkeyedIds) :
         \E k \in Keys : /\ IkPk(k) \in DOMAIN idempotency_keys
                         /\ idempotency_keys[IkPk(k)].payment_intent_id = i

\* two requests with the same key and the same body both returned 201
C1_Witness ==
    \E k \in Keys : \E r \in Created201(k) :
        /\ CopiesIn(r, responses) >= 2
        /\ IkPk(k) \notin DOMAIN seed.ik

\* C2: after a create returned 201, with or without a key, the outbox holds a
\* payment_intent.created event whose payload is the created intent.
C2_CreatedEventAfterEvery201 ==
    \A r \in Returned :
        (r.op = "create" /\ r.code = 201 /\ r.body.id \notin DOMAIN seed.pi)
            => \E n \in EventsOf(CREATED_EVENT, r.body.id) :
                 events_outbox[n].payload =
                    EventPayload(PaymentIntentResponse(r.body.id, r.body.amount,
                                     r.body.currency, REQUIRES_CONFIRMATION))

\* the responses the step adds
Added == {r \in BagToSet(responses') : CopiesIn(r, responses') > CopiesIn(r, responses)}

\* request p takes the step
Acts(p) == pc'[p] # pc[p]

\* request p takes the step, which returns a response and is no injected failure
Returns(p) == /\ pc[p] # "idle" /\ pc'[p] = "idle"
              /\ Added # {}
              /\ nFailures' = nFailures

\* the 409 responses to creates that carried header h
Conflict409(h) == {r \in Returned : r.op = "create" /\ r.header = h /\ r.code = 409}

C3_KeyHeldByOtherRequest(p) ==
    /\ req[p].op = "create"
    /\ req[p].header \in Keys
    /\ IkPk(req[p].header) \in DOMAIN idempotency_keys
    /\ idempotency_keys[IkPk(req[p].header)].request_hash # loc[p].req_hash

C3_Step(p) ==
    (C3_KeyHeldByOtherRequest(p) /\ Acts(p)) =>
        /\ Tables' = Tables
        /\ tx'[p] \in {NoTx, OpenTx}
        /\ Returns(p) => \A r \in Added : r.code = 409

\* C3: a create whose key is held by a committed record with another
\* fingerprint returns 409, writes nothing (no intent, no event, the record and
\* its intent unchanged); whatever the interleaving, the creates of one key
\* that return 201 all carry the fingerprint the key's record holds.
C3_ConflictOnDifferentPayload ==
    /\ [](\A k \in Keys : \A r \in Created201(k) :
            /\ IkPk(k) \in DOMAIN idempotency_keys
            /\ idempotency_keys[IkPk(k)].request_hash = request_fingerprint(r))
    /\ [][\A p \in Procs : C3_Step(p)]_vars

\* one key, a create that made the intent and a create that got 409
C3_Witness ==
    \E k \in Keys :
        /\ Conflict409(k) # {}
        /\ Created201(k) # {}
        /\ IkPk(k) \notin DOMAIN seed.ik

\* the responses to confirms of one intent with one status code
Confirmed(id, code) == {r \in Returned : r.op = "confirm" /\ r.id = id /\ r.code = code}

ConfirmedIds == DOMAIN payment_intents \cup {r.id : r \in {x \in Returned : x.op = "confirm"}}

ExactlyOne200(id) ==
    /\ Cardinality(Confirmed(id, 200)) = 1
    /\ \A r \in Confirmed(id, 200) : CopiesIn(r, responses) = 1

C5_Step(p) ==
    LET id == req[p].id
        known == id \in DOMAIN payment_intents
        succeeded == PaymentIntentResponse(id, payment_intents[id].amount,
                                           payment_intents[id].currency, SUCCEEDED)
    IN  (req[p].op = "confirm" /\ Acts(p)) =>
          /\ (pc[p] = "cas_update" /\ known /\ nFailures' = nFailures
                /\ payment_intents[id].status = REQUIRES_CONFIRMATION)
               => pc'[p] = "insert_event"
          /\ (pc[p] = "commit" /\ Returns(p)) =>
               /\ known
               /\ payment_intents[id].status = REQUIRES_CONFIRMATION
               /\ payment_intents' = [payment_intents EXCEPT ![id].status = SUCCEEDED]
               /\ events_outbox' = Append(events_outbox,
                                          OutboxEvent(SUCCEEDED_EVENT,
                                                      EventPayload(succeeded)))
               /\ \A r \in Added : r.code = 200 /\ r.body = succeeded
               /\ UNCHANGED idempotency_keys
          /\ (known /\ payment_intents[id].status = SUCCEEDED) =>
               /\ Tables' = Tables
               /\ Returns(p) =>
                    \A r \in Added : /\ r.code = 409
                                     /\ r.body.status = SUCCEEDED
                                     /\ r.msg = ConfirmConflictMessage(SUCCEEDED)
          /\ (Returns(p) /\ \E r \in Added : r.code = 200) => pc[p] = "commit"

OnRetryPath(p) == pc[p] \in {"fetch_row", "fetch_pi", "backfill", "commit_backfill"}

\* C6: for the creates of one Idempotency-Key, every committed state holds
\* exactly one payment_intent.created event for the intent of the key's record
\* (none for a record that was in the database before the first request), and
\* no step of the retry path, the reconstruction included, appends an event.
C6_OneCreatedEventPerKey ==
    /\ [](\A k \in Keys :
            IkPk(k) \in DOMAIN idempotency_keys =>
               Cardinality(EventsOf(CREATED_EVENT,
                                    idempotency_keys[IkPk(k)].payment_intent_id))
                 = IF IkPk(k) \in DOMAIN seed.ik THEN 0 ELSE 1)
    /\ [][\A p \in Procs : (OnRetryPath(p) /\ Acts(p)) => UNCHANGED events_outbox]_vars

\* a key whose create was answered 201 more than once
C6_Witness ==
    \E k \in Keys :
        /\ IkPk(k) \notin DOMAIN seed.ik
        /\ \E r1, r2 \in Created201(k) : r1 # r2 \/ CopiesIn(r1, responses) >= 2
        /\ Cardinality(EventsOf(CREATED_EVENT,
                                idempotency_keys[IkPk(k)].payment_intent_id)) = 1

\* the intents created through the keyed path: those a record made by a
\* handler references
KeyedIds ==
    {idempotency_keys[k].payment_intent_id :
        k \in DOMAIN idempotency_keys \ DOMAIN seed.ik}

EventIds(event_type) ==
    {events_outbox[n].payload.payment_intent.id :
        n \in {m \in 1 .. Len(events_outbox) : events_outbox[m].event_type = event_type}}

\* C7: in every committed state an intent of the keyed create path exists
\* exactly when its payment_intent.created event exists and an intent is
\* succeeded exactly when its payment_intent.succeeded event exists; the
\* tables change only at a commit (or the unkeyed autocommitted insert), and a
\* step that fails or crashes changes no table.
C7_StateChangeAndEventAtomic ==
    /\ [](/\ KeyedIds \subseteq DOMAIN payment_intents
          /\ EventIds(CREATED_EVENT) = KeyedIds
          /\ EventIds(SUCCEEDED_EVENT) =
               {i \in DOMAIN payment_intents : payment_intents[i].status = SUCCEEDED})
    /\ [][/\ nFailures' # nFailures => Tables' = Tables
          /\ Tables' # Tables =>
               \E p \in Procs : /\ pc[p] \in {"commit", "commit_backfill", "insert_nokey"}
                                /\ pc'[p] = "idle"]_vars

\* a keyed create wrote its intent inside the transaction and then failed:
\* nothing of it is in the tables
C7_Witness ==
    /\ seed = EmptyDb
    /\ nextId = 2
    /\ nFailures = 1
    /\ Tables = <<EmptyFcn, EmptyFcn, <<>>>>
    /\ \A p \in Procs : pc[p] = "idle" /\ tx[p] = NoTx

\* the stored record of request p's key is the crash window's: it holds the
\* request's fingerprint and a payment_intent_id, and its body is incomplete
C8_CrashWindowRecord(p) ==
    /\ req[p].op = "create"
    /\ req[p].header \in Keys
    /\ IkPk(req[p].header) \in DOMAIN idempotency_keys
    /\ LET row == idempotency_keys[IkPk(req[p].header)]
       IN  /\ row.request_hash = loc[p].req_hash
           /\ ~looks_complete(row.response_body)
           /\ row.payment_intent_id \in DOMAIN payment_intents

C8_Step(p) ==
    LET k == IkPk(req[p].header)
        row == idempotency_keys[k]
        pi == payment_intents[row.payment_intent_id]
    IN  /\ (OnRetryPath(p) /\ Acts(p)) => UNCHANGED <<payment_intents, events_outbox>>
        /\ (C8_CrashWindowRecord(p) /\ Acts(p) /\ nFailures' = nFailures) =>
             /\ pc[p] = "fetch_row" => pc'[p] = "fetch_pi"
             /\ pc[p] = "fetch_pi" =>
                  /\ pc'[p] = "backfill"
                  /\ loc'[p].response =
                       PaymentIntentResponse(row.payment_intent_id, pi.amount,
                                             pi.currency, pi.status)
             /\ pc[p] = "backfill" => pc'[p] = "commit_backfill"
        /\ (pc[p] = "commit_backfill" /\ Returns(p)) =>
             /\ \A r \in Added : /\ r.code = 201
                                 /\ r.body = loc[p].response
                                 /\ r.body.id = row.payment_intent_id
                                 /\ r.body.id \in DOMAIN payment_intents
                                 /\ r.body.amount = pi.amount
                                 /\ r.body.currency = pi.currency
             /\ idempotency_keys' =
                  [idempotency_keys EXCEPT ![k].response_body = loc[p].response]
             /\ looks_complete(idempotency_keys'[k].response_body)
             /\ from_value_ok(idempotency_keys'[k].response_body)

\* C8: given a record with payment_intent_id set and an incomplete
\* response_body, a create with the matching key and payload reads the
\* referenced intent, returns 201 with its id, amount, currency and the status
\* it read, inserts no intent and no event, and its commit leaves the record's
\* response_body holding that response, complete for the stored-response path.
C8_CrashRecovery == [][\A p \in Procs : C8_Step(p)]_vars

\* the crash-window record was retried: 201 with the existing intent, record
\* backfilled
C8_Witness ==
    /\ seed = CrashWindowDb
    /\ \E r \in Created201("crash-window-key") : r.body.id = 1
    /\ looks_complete(idempotency_keys[IkPk("crash-window-key")].response_body)
    /\ DOMAIN payment_intents = {1}

\* C9: every successful create with one Idempotency-Key and one payload gets
\* the same response (id, amount, currency, status, 201), whatever was
\* committed between the attempts; stated for the behaviours without any
\* storage failure or crash.
C9_RetriesGetTheSameResponse ==
    nFailures = 0 =>
        \A k \in Keys : \A r1, r2 \in Created201(k) :
            (r1.amount = r2.amount /\ r1.currency = r2.currency) => r1.body = r2.body

\* the 201 responses to creates that carried no Idempotency-Key header
Unkeyed201 == Created201(NoHeader)

C10_Step(p) ==
    /\ (pc[p] = "idle" /\ Acts(p) /\ req'[p].op = "create"
          /\ req'[p].header = NoHeader) => pc'[p] = "insert_nokey"
    /\ (pc[p] = "insert_nokey" /\ req[p].header = NoHeader /\ Returns(p)) =>
         \E id \in DOMAIN payment_intents' \ DOMAIN payment_intents :
             /\ \A q \in Procs : id \notin DOMAIN tx[q].pi
             /\ payment_intents' =
                  Overlay(id :> PaymentIntentRow(req[p].amount, req[p].currency,
                                                 REQUIRES_CONFIRMATION),
                          payment_intents)
             /\ UNCHANGED idempotency_keys
             /\ \A r \in Added :
                  /\ r.code = 201
                  /\ r.body = PaymentIntentResponse(id, req[p].amount, req[p].currency,
                                                    REQUIRES_CONFIRMATION)

\* C10: a valid create without an Idempotency-Key returns 201, inserts one
\* intent with a fresh id and status requires_confirmation and writes no
\* idempotency record; n such creates have made n distinct intents.
C10_UnkeyedCreateMakesNewIntent ==
    /\ [](/\ \A r \in Unkeyed201 : /\ CopiesIn(r, responses) = 1
                                   /\ r.body.id \in DOMAIN payment_intents
                                   /\ \A k \in DOMAIN idempotency_keys :
                                        idempotency_keys[k].payment_intent_id # r.body.id
          /\ \A r1, r2 \in Unkeyed201 : r1 # r2 => r1.body.id # r2.body.id)
    /\ [][\A p \in Procs : C10_Step(p)]_vars

\* two creates without a key made two intents
C10_Witness ==
    /\ Cardinality(Unkeyed201) >= 2
    /\ Cardinality({r.body.id : r \in Unkeyed201}) = Cardinality(Unkeyed201)
    /\ idempotency_keys = seed.ik

\* the payloads the claim names: amount <= 0, or currency empty after trimming
C11_BadInput(r) == r.amount <= 0 \/ Trim(r.currency) = <<>>

\* C11: a create whose amount is <= 0 or whose currency is empty after
\* trimming is answered 400 in the step that receives it, with or without an
\* Idempotency-Key: that step changes no table and opens no transaction, no
\* later statement ever runs for such a payload, and 400 is given to no other
\* create.
C11_ValidationErrorTouchesNothing ==
    /\ [](/\ \A p \in Procs : req[p].op = "create" => ~C11_BadInput(req[p])
          /\ \A r \in Returned :
               r.op = "create" => (C11_BadInput(r) <=> r.code = 400))
    /\ [][\A r \in Added :
            (r.op = "create" /\ C11_BadInput(r)) =>
               /\ r.code = 400
               /\ r.msg \in {"amount must be > 0", "currency is required"}
               /\ Tables' = Tables
               /\ UNCHANGED <<tx, pc, nextId>>]_vars

\* a keyed and an unkeyed create were refused, and the tables are as before
C11_Witness ==
    /\ \E r \in Returned : r.code = 400 /\ r.header \in Keys /\ r.amount <= 0
    /\ \E r \in Returned : r.code = 400 /\ r.header = NoHeader /\ Trim(r.currency) = <<>>
    /\ Tables = <<seed.pi, seed.ik, <<>>>>

\* the 400 responses to creates that carried header h
Refused400(h) == {r \in Returned : r.op = "create" /\ r.header = h /\ r.code = 400}

C12_Step(p) ==
    LET k == IkPk(req[p].header)
    IN  /\ (\E r \in Added : r.code = 400 /\ r.header \in Keys) =>
             UNCHANGED <<idempotency_keys, tx>>
        /\ (/\ pc[p] = "reserve" /\ Acts(p) /\ nFailures' = nFailures
            /\ Refused400(req[p].header) # {}
            /\ k \notin DOMAIN idempotency_keys) =>
               /\ pc'[p] = "insert_pi"
               /\ k \in tx'[p].ikNew
        /\ (/\ pc[p] = "commit" /\ req[p].op = "create" /\ Returns(p)
            /\ Refused400(req[p].header) # {}) =>
               /\ k \in DOMAIN idempotency_keys' \ DOMAIN idempotency_keys
               /\ \E id \in DOMAIN payment_intents' :
                    /\ DOMAIN payment_intents' = DOMAIN payment_intents \cup {id}
                    /\ id \notin DOMAIN payment_intents
                    /\ idempotency_keys'[k].payment_intent_id = id
                    /\ \A r \in Added : r.code = 201 /\ r.body.id = id

\* C12: a create with key k that fails validation does not consume k.  The
\* step that answers 400 leaves the idempotency records and every transaction
\* as they were, and the record of k is never the refused request's; a later
\* create with key k that finds no record of k wins the reservation, and its
\* commit returns 201 and adds exactly one intent, the one k's record names.
\* Without storage failures, a valid create with a key no earlier database
\* held is answered 409 or 500 only after another valid create of the key
\* returned 201.
C12_ValidationFailureKeepsKeyFree ==
    /\ [](\A k \in Keys :
            /\ \A r \in Refused400(k) :
                 /\ IkPk(k) \in DOMAIN idempotency_keys =>
                      idempotency_keys[IkPk(k)].request_hash # request_fingerprint(r)
                 /\ \A q \in Procs :
                      IkPk(k) \in DOMAIN tx[q].ik =>
                         tx[q].ik[IkPk(k)].request_hash # request_fingerprint(r)
            /\ (nFailures = 0 /\ IkPk(k) \notin DOMAIN seed.ik) =>
                 \A r \in Returned :
                    (r.op = "create" /\ r.header = k /\ r.code \notin {400, 201})
                       => Created201(k) # {})
    /\ [][\A p \in Procs : C12_Step(p)]_vars

\* key abc123 was refused for amount 0 and then made exactly one intent
C12_Witness ==
    /\ seed = EmptyDb
    /\ \E r \in Refused400("abc123") : r.amount <= 0
    /\ \E r \in Created201("abc123") :
         /\ DOMAIN payment_intents = {r.body.id}
         /\ idempotency_keys[IkPk("abc123")].payment_intent_id = r.body.id
    /\ \A p \in Procs : pc[p] = "idle"

C13_Step(p) ==
    (req[p].op = "confirm" /\ Acts(p) /\ req[p].id \notin DOMAIN payment_intents) =>
        /\ Tables' = Tables
        /\ tx'[p] \in {NoTx, OpenTx}
        /\ (pc[p] = "cas_update" /\ nFailures' = nFailures) => pc'[p] = "diag_select"
        /\ Returns(p) =>
             /\ pc[p] = "diag_select"
             /\ \A r \in Added : r.code = 404 /\ r.msg = "payment_intent not found"

\* C13: a confirm of an identifier for which no intent exists finds no row
\* to update, reads none in the diagnostic SELECT and returns 404; none of its
\* steps changes a table or writes in its transaction, so no intent is created
\* or modified and no event is appended.  Every answer to a confirm of an
\* identifier no row was ever given is 404 (500 for an injected failure).
C13_ConfirmUnknownIs404 ==
    /\ [](\A r \in Returned :
            (r.op = "confirm" /\ r.id = UnknownId) =>
                \/ r.code = 404
                \/ r.code = 500 /\ nFailures > 0)
    /\ [][\A p \in Procs : C13_Step(p)]_vars

\* an unknown identifier was confirmed: 404, and the database is as it was
C13_Witness ==
    /\ Confirmed(UnknownId, 404) # {}
    /\ Tables = <<seed.pi, seed.ik, <<>>>>
    /\ nFailures = 0

C14_RowStep(i) ==
    IF i \in DOMAIN payment_intents
    THEN /\ i \in DOMAIN payment_intents'
         /\ payment_intents'[i].amount = payment_intents[i].amount
         /\ payment_intents'[i].currency = payment_intents[i].currency
         /\ \/ payment_intents'[i].status = payment_intents[i].status
            \/ /\ payment_intents[i].status = REQUIRES_CONFIRMATION
               /\ payment_intents'[i].status = SUCCEEDED
    ELSE i \in DOMAIN payment_intents' =>
            payment_intents'[i].status = REQUIRES_CONFIRMATION

\* C14: every intent's status is requires_confirmation or succeeded, in the
\* table and in the uncommitted inserts; a row that appears in the table has
\* status requires_confirmation; a step changes a row's status only from
\* requires_confirmation to succeeded, never changes its amount or currency
\* (the id is the row's identity), and never removes a row.
C14_StatusLifecycle ==
    /\ [](/\ \A i \in DOMAIN payment_intents :
               payment_intents[i].status \in {REQUIRES_CONFIRMATION, SUCCEEDED}
          /\ \A p \in Procs : \A i \in DOMAIN tx[p].pi :
               tx[p].pi[i].status = REQUIRES_CONFIRMATION)
    /\ [][\A i \in DOMAIN payment_intents \cup DOMAIN payment_intents' :
            C14_RowStep(i)]_vars

\* an intent the handlers inserted was confirmed by a confirm that returned 200
C14_Witness ==
    /\ \E i \in DOMAIN payment_intents \ DOMAIN seed.pi :
         /\ payment_intents[i].status = SUCCEEDED
         /\ Confirmed(i, 200) # {}
         /\ payment_intents[i].amount = 2500
    /\ nFailures = 0

\* the responses to gets with one status code
Got(code) == {r \in Returned : r.op = "get" /\ r.code = code}

C15_Step(r) ==
    /\ Tables' = Tables
    /\ UNCHANGED <<tx, pc, nextId>>
    /\ IF r.id \in DOMAIN payment_intents
       THEN /\ r.code = 200
            /\ r.body = PaymentIntentResponse(r.id, payment_intents[r.id].amount,
                                              payment_intents[r.id].currency,
                                              payment_intents[r.id].status)
       ELSE /\ r.code = 404
            /\ r.body = NoBody

\* C15: a get changes no table and no transaction; for an id with a committed
\* row it returns 200 with that id and the row's amount, currency and status
\* at the time of the read, and for any other id it returns 404.
C15_GetIsPureRead == [][\A r \in Added : r.op = "get" => C15_Step(r)]_vars

\* a get of an intent that a confirm had set to succeeded answered 200 with
\* status succeeded
C15_Witness ==
    \E r \in Got(200) :
        /\ r.body.status = SUCCEEDED
        /\ Confirmed(r.id, 200) # {}
        /\ payment_intents[r.id].status = SUCCEEDED

\* a committed idempotency record as the reservation-won branch leaves it
C16_Complete(row) ==
    /\ row.payment_intent_id # NullId
    /\ row.payment_intent_id \in DOMAIN payment_intents
    /\ looks_complete(row.response_body)
    /\ from_value_ok(row.response_body)
    /\ row.response_body.id = row.payment_intent_id

\* C16: starting from an empty database, with failures and crashes at any
\* step, every committed idempotency record has payment_intent_id set, names
\* an existing intent and holds a complete response with that id; what any
\* request can read of another's record is therefore never the placeholder:
\* no request ever enters the reconstruction path or gets the 500 of a record
\* without response and payment_intent_id.
C16_CommittedRecordsComplete ==
    seed = EmptyDb =>
        /\ \A k \in DOMAIN idempotency_keys : C16_Complete(idempotency_keys[k])
        /\ \A p \in Procs :
             /\ pc[p] \notin {"fetch_pi", "backfill", "commit_backfill"}
             /\ \A k \in DOMAIN VisibleIdempotencyKeys(p) \ DOMAIN tx[p].ik :
                  VisibleIdempotencyKeys(p)[k].response_body # EmptyJson
        /\ \A r \in Returned :
             r.msg # "idempotency record exists but has no stored response or payment_intent_id"

\* a request is about to read the record another request's transaction
\* committed
C16_Witness ==
    /\ seed = EmptyDb
    /\ \E p \in Procs :
         /\ pc[p] = "fetch_row"
         /\ IkPk(req[p].header) \in DOMAIN idempotency_keys
         /\ C16_Complete(idempotency_keys[IkPk(req[p].header)])

\* request p is on the reservation-won branch of a keyed create
OnWonBranch(p) ==
    /\ req[p].op = "create"
    /\ pc[p] \in {"insert_pi", "update_key", "insert_event", "commit"}

C17_Step(p) ==
    LET k == IkPk(req[p].header)
    IN  /\ (OnWonBranch(p) /\ Acts(p) /\ nFailures' # nFailures) =>
             /\ Tables' = Tables
             /\ tx'[p] = NoTx
             /\ pc'[p] = "idle"
             /\ k \notin DOMAIN idempotency_keys'
             /\ \A q \in Procs : k \notin DOMAIN tx'[q].ik
             /\ \A id \in DOMAIN tx[p].pi :
                  /\ id \notin DOMAIN payment_intents'
                  /\ EventsOf(CREATED_EVENT, id)' = {}
             /\ \A r \in Added : r.code = 500
        /\ (/\ pc[p] = "reserve" /\ Acts(p) /\ nFailures' = nFailures
            /\ nFailures > 0
            /\ k \notin DOMAIN idempotency_keys) =>
               /\ pc'[p] = "insert_pi"
               /\ k \in tx'[p].ikNew
        /\ (/\ pc[p] = "commit" /\ req[p].op = "create" /\ Returns(p)
            /\ nFailures > 0) =>
               /\ k \in DOMAIN idempotency_keys' \ DOMAIN idempotency_keys
               /\ DOMAIN payment_intents' \ DOMAIN payment_intents
                    = {idempotency_keys'[k].payment_intent_id}
               /\ \A r \in Added :
                    /\ r.code = 201
                    /\ r.body.id = idempotency_keys'[k].payment_intent_id

\* C17: when a step of the reservation-won branch of a keyed create fails
\* (intent insert, record update, outbox insert, commit) or the process
\* crashes before the commit, the step leaves every table as it was and the
\* transaction gone: the attempt's intent, record and event are visible to
\* nobody.  A create with the key that then finds no record wins the
\* reservation, and its commit returns 201 and adds exactly one intent, the
\* one the key's new record names.  In every state the intents in the table
\* are the earlier database's, the unkeyed creates' and one per record.
C17_FailedAttemptLeavesNothing ==
    /\ [](/\ DOMAIN payment_intents \ (DOMAIN seed.pi \cup UnkeyedIds) = KeyedIds
          /\ Cardinality(KeyedIds)
               = Cardinality(DOMAIN idempotency_keys \ DOMAIN seed.ik)
          /\ EventIds(CREATED_EVENT) \subseteq DOMAIN payment_intents)
    /\ [][\A p \in Procs : C17_Step(p)]_vars

\* the first attempt with key abc123 inserted intent 1 and was aborted; the
\* next attempt made intent 2, the only intent, record and event there is
C17_Witness ==
    /\ seed = EmptyDb
    /\ nFailures = 1
    /\ DOMAIN payment_intents = {2}
    /\ DOMAIN idempotency_keys = {IkPk("abc123")}
    /\ idempotency_keys[IkPk("abc123")].payment_intent_id = 2
    /\ \E r \in Created201("abc123") : r.body.id = 2
    /\ Len(events_outbox) = 1
    /\ EventsOf(CREATED_EVENT, 2) = {1}

\* request p observed "reservation won" for primary key k and has not finished
C18_Won(p, k) == k \in tx[p].ikNew

C18_Step(p) ==
    LET k == IkPk(req[p].header)
    IN  (pc[p] = "reserve" /\ Acts(p) /\ nFailures' = nFailures) =>
            /\ ~InsertPending(p, k)
            /\ IF k \in DOMAIN idempotency_keys
               THEN /\ pc'[p] = "fetch_row"
                    /\ tx'[p] = tx[p]
               ELSE /\ pc'[p] = "insert_pi"
                    /\ C18_Won(p, k)'
            /\ Tables' = Tables

\* C18: the reservation is one insert-if-absent on (key, endpoint).  In no
\* interleaving do two open transactions both hold "reservation won" for one
\* key, and none holds it for a key whose record is committed; the reserving
\* statement decides between won and lost in a single step, waiting while
\* another insert of the key is pending; a request that lost always has the
\* committed record before it when it reads it, so its read never returns no
\* row (a create is answered 500 "db error" only for an injected failure).
C18_ReservationIsAtomic ==
    /\ [](/\ \A p, q \in Procs : \A k \in DOMAIN tx[p].ik :
               (p # q /\ C18_Won(p, k)) => ~C18_Won(q, k)
          /\ \A p \in Procs : \A k \in tx[p].ikNew : k \notin DOMAIN idempotency_keys
          /\ \A p \in Procs :
               OnRetryPath(p) => IkPk(req[p].header) \in DOMAIN idempotency_keys
          /\ \A r \in Returned :
               (r.op = "create" /\ r.msg = "db error") => nFailures > 0)
    /\ [][\A p \in Procs : C18_Step(p)]_vars

\* two creates with the same fresh key race: one won and has not committed,
\* the other waits at the reservation
C18_Witness ==
    \E p, q \in Procs :
        /\ p # q
        /\ req[p].header = req[q].header
        /\ IkPk(req[p].header) \notin DOMAIN seed.ik
        /\ C18_Won(p, IkPk(req[p].header))
        /\ pc[q] = "reserve"
        /\ InsertPending(q, IkPk(req[q].header))

\* the currency after case normalisation
C19_CaseFolded(c) == ToLowercase(c)

\* the currency after trimming surrounding whitespace and case normalisation
C19_TrimmedCaseFolded(c) == ToLowercase(Trim(c))

\* two payloads are the same request under the normalisation Normal
C19_Same(a, b, Normal(_)) == a.amount = b.amount /\ Normal(a.currency) = Normal(b.currency)

\* fingerprints are equal exactly for payloads that are the same under Normal:
\* for any two creates in flight, and for a create in flight and the payload
\* of a committed record of its key; and of the creates of a key with a
\* complete record, those answered 201 carry the record's payload under Normal
\* and the record's intent, those answered 409 carry another payload, and
\* without storage failures there is no third answer to a valid create
C19_Statement(Normal(_)) ==
    /\ \A p, q \in Procs :
         (req[p].op = "create" /\ req[q].op = "create") =>
            (loc[p].req_hash = loc[q].req_hash <=> C19_Same(req[p], req[q], Normal))
    /\ \A k \in Keys :
         (IkPk(k) \in DOMAIN idempotency_keys
             /\ from_value_ok(idempotency_keys[IkPk(k)].response_body)) =>
            LET row == idempotency_keys[IkPk(k)]
            IN  /\ \A p \in Procs :
                     (req[p].op = "create" /\ req[p].header = k) =>
                        (loc[p].req_hash = row.request_hash
                            <=> C19_Same(req[p], row.response_body, Normal))
                /\ \A r \in Created201(k) :
                     /\ C19_Same(r, row.response_body, Normal)
                     /\ r.body.id = row.payment_intent_id
                /\ \A r \in Conflict409(k) : ~C19_Same(r, row.response_body, Normal)
                /\ nFailures = 0 =>
                     \A r \in Returned :
                        (r.op = "create" /\ r.header = k) => r.code \in {201, 409, 400}

\* C19 as stated: two creates have equal fingerprints if and only if their
\* amounts are equal and their currencies are equal after case normalisation;
\* so a retry that differs in letter case only gets 201 with the same intent
\* and a retry with another amount gets 409.
C19_FingerprintIffCaseFolded == C19_Statement(C19_CaseFolded)

\* C19 amended: two creates have equal fingerprints if and only if their
\* amounts are equal and their currencies are equal after trimming
\* surrounding whitespace and case normalisation; so a retry that differs in
\* letter case (or surrounding whitespace) only gets 201 with the same intent
\* and a retry with another amount gets 409.
C19_FingerprintIffTrimmedCaseFolded == C19_Statement(C19_TrimmedCaseFolded)

\* key abc123 was used with currency g and with currency G: both 201, one intent
C19_Witness ==
    \E r1, r2 \in Created201("abc123") :
        /\ r1.currency = <<"g">>
        /\ r2.currency = <<"G">>
        /\ r1.amount = r2.amount
        /\ r1.body.id = r2.body.id
        /\ Cardinality(DOMAIN payment_intents \ DOMAIN seed.pi) = 1

\* the stored record of request p's key holds the request's fingerprint, an
\* incomplete body and no payment_intent_id
C20_OrphanRecord(p) ==
    /\ req[p].op = "create"
    /\ req[p].header \in Keys
    /\ IkPk(req[p].header) \in DOMAIN idempotency_keys
    /\ LET row == idempotency_keys[IkPk(req[p].header)]
       IN  /\ row.request_hash = loc[p].req_hash
           /\ ~looks_complete(row.response_body)
           /\ row.payment_intent_id = NullId

C20_NoStoredResponse ==
    "idempotency record exists but has no stored response or payment_intent_id"

C20_Step(p) ==
    (C20_OrphanRecord(p) /\ Acts(p)) =>
        /\ Tables' = Tables
        /\ tx'[p] \in {NoTx, OpenTx}
        /\ UNCHANGED nextId
        /\ nFailures' = nFailures =>
             /\ pc[p] \in {"reserve", "fetch_row"}
             /\ pc[p] = "reserve" => pc'[p] = "fetch_row"
             /\ pc[p] = "fetch_row" =>
                  /\ Returns(p)
                  /\ \A r \in Added : r.code = 500 /\ r.msg = C20_NoStoredResponse

\* C20: given a record with an incomplete response_body and no
\* payment_intent_id, a create with the matching key and payload loses the
\* reservation, reads the record and returns 500; none of its steps inserts
\* an intent, appends an event or changes the record, which stays as it was
\* whatever requests follow, and no create of the key is ever answered 201.
C20_OrphanRecordIs500 ==
    /\ [](seed = OrphanRecordDb =>
            /\ \A k \in DOMAIN seed.ik :
                 k \in DOMAIN idempotency_keys /\ idempotency_keys[k] = seed.ik[k]
            /\ Created201("crash-window-key") = {}
            /\ \A p \in Procs :
                 req[p].header = "crash-window-key" => tx[p] \in {NoTx, OpenTx})
    /\ [][\A p \in Procs : C20_Step(p)]_vars

\* the matching create was answered 500 and the database is as it was
C20_Witness ==
    /\ seed = OrphanRecordDb
    /\ nFailures = 0
    /\ \E r \in Returned :
         /\ r.op = "create" /\ r.header = "crash-window-key"
         /\ r.amount = 2500 /\ r.currency = <<"g">>
         /\ r.code = 500 /\ r.msg = C20_NoStoredResponse
    /\ Tables = <<seed.pi, seed.ik, <<>>>>

\* the step ends request p's handler
C21_Ends(p) == pc[p] # "idle" /\ pc'[p] = "idle"

\* C21: every request that was started comes to its end: a get and a refused
\* create are answered in the step that receives them, and, the requests of
\* a behaviour being finitely many, from some point on no handler is in
\* flight any more, however the requests on the same key or the same intent
\* interleave (whenever a request is in flight some handler can take its
\* next statement: no deadlock).  The step that ends a handler
\* adds its response, unless the process was killed, and leaves the
\* request's transaction closed with none of its writes pending, on the
\* success and on every error path; a request that is not in flight holds no
\* transaction.
C21_EveryRequestReturns ==
    /\ [](/\ \A p \in Procs : pc[p] = "idle" => tx[p] = NoTx
          /\ (\E p \in Procs : pc[p] # "idle") =>
                \E p \in Procs : ENABLED HandlerStep(p))
    /\ [][\A p \in Procs :
            C21_Ends(p) =>
               /\ tx'[p] = NoTx
               /\ Added # {} \/ nFailures' = nFailures + 1]_vars
    /\ <>[](\A p \in Procs : pc[p] = "idle")

\* two creates with one key, one waiting for the other's reservation, while
\* nothing else can run
C21_Witness ==
    \E p, q \in Procs :
        /\ p # q
        /\ pc[q] = "reserve"
        /\ InsertPending(q, IkPk(req[q].header))
        /\ IkPk(req[q].header) \in tx[p].ikNew
        /\ pc[p] = "update_key"
        /\ requestsLeft = 0

\* C22: a step never removes a committed idempotency record and never changes
\* its request_hash or its payment_intent_id (only response_body is ever
\* rewritten), and it leaves every existing outbox event in place and
\* unmodified: the outbox after the step is the outbox before it, possibly
\* with events appended.
C22_RecordsFixedOutboxAppendOnly ==
    [][/\ \A k \in DOMAIN idempotency_keys :
            /\ k \in DOMAIN idempotency_keys'
            /\ idempotency_keys'[k].request_hash = idempotency_keys[k].request_hash
            /\ idempotency_keys'[k].payment_intent_id
                 = idempotency_keys[k].payment_intent_id
       /\ Len(events_outbox') >= Len(events_outbox)
       /\ SubSeq(events_outbox', 1, Len(events_outbox)) = events_outbox]_vars

\* the crash-window record had its response_body rewritten and kept its
\* fingerprint and its reference, and a later commit appended an event
C22_Witness ==
    /\ seed = CrashWindowDb
    /\ LET k == IkPk("crash-window-key")
       IN  /\ idempotency_keys[k].response_body # seed.ik[k].response_body
           /\ idempotency_keys[k].request_hash = seed.ik[k].request_hash
           /\ idempotency_keys[k].payment_intent_id = seed.ik[k].payment_intent_id
    /\ Len(events_outbox) = 1

\* the committed records that reference intent i
C23_Referrers(i) ==
    {k \in DOMAIN idempotency_keys : idempotency_keys[k].payment_intent_id = i}

\* C23: each payment intent is referenced by at most one idempotency record,
\* in the table and counting the uncommitted records of open transactions,
\* and an intent created without a key is referenced by none.
C23_AtMostOneRecordPerIntent ==
    /\ \A i \in DOMAIN payment_intents : Cardinality(C23_Referrers(i)) <= 1
    /\ \A i \in UnkeyedIds : C23_Referrers(i) = {}
    /\ \A p \in Procs : \A k \in DOMAIN tx[p].ik :
         LET i == tx[p].ik[k].payment_intent_id
         IN  i # NullId =>
               /\ C23_Referrers(i) \subseteq {k}
               /\ i \notin UnkeyedIds
               /\ \A q \in Procs \ {p} : \A k2 \in DOMAIN tx[q].ik :
                    tx[q].ik[k2].payment_intent_id # i

\* two records of different keys reference two intents, and a third intent
\* was created without a key
C23_Witness ==
    /\ \E k1, k2 \in DOMAIN idempotency_keys :
         /\ k1 # k2
         /\ idempotency_keys[k1].payment_intent_id \in DOMAIN payment_intents
         /\ idempotency_keys[k2].payment_intent_id \in DOMAIN payment_intents
         /\ idempotency_keys[k1].payment_intent_id
              # idempotency_keys[k2].payment_intent_id
    /\ \E i \in UnkeyedIds : i \in DOMAIN payment_intents /\ C23_Referrers(i) = {}

\* the rows of events_outbox about payment intent i
C24_EventsAbout(i) ==
    {n \in 1 .. Len(events_outbox) : events_outbox[n].payload.payment_intent.id = i}

\* C24: for every intent the handlers created, the outbox holds exactly one
\* event per lifecycle transition the intent underwent (one event, the
\* payment_intent.created, while its status is requires_confirmation; two
\* once it is succeeded), and every payment_intent.succeeded event of an
\* intent is preceded in the outbox by a payment_intent.created event of the
\* same intent.
C24_OneEventPerTransition ==
    \A i \in DOMAIN payment_intents \ DOMAIN seed.pi :
        /\ Cardinality(C24_EventsAbout(i))
             = IF payment_intents[i].status = SUCCEEDED THEN 2 ELSE 1
        /\ Cardinality(EventsOf(CREATED_EVENT, i)) = 1
        /\ \A n \in EventsOf(SUCCEEDED_EVENT, i) :
             \E m \in EventsOf(CREATED_EVENT, i) : m < n

\* C25: a confirm returns 409 only for an intent whose committed status is
\* succeeded at the time of its diagnostic read: whatever a concurrent create
\* or confirm commits or rolls back between the conditional update and the
\* diagnostic read, no confirm is answered 409 naming status
\* requires_confirmation.
C25_ConflictOnlyForSucceeded ==
    \A r \in Returned :
        (r.op = "confirm" /\ r.code = 409) =>
            /\ r.body.status = SUCCEEDED
            /\ r.msg = ConfirmConflictMessage(SUCCEEDED)

\* C26: every create that carries an Idempotency-Key header goes through the
\* reservation: whatever the header value, one that cannot be decoded as a
\* string included, two successful creates with the same header value and
\* the same payload have not made two intents (their responses carry one id).
C26_EveryHeaderValueReserves ==
    \A h \in Headers \ {NoHeader} : \A r1, r2 \in Created201(h) :
        (r1.amount = r2.amount /\ r1.currency = r2.currency) => r1.body.id = r2.body.id

====
